---- MODULE Spec2Model ----
(***************************************************************************)
(* Four independent heuristics of labs/: Welsh-Powell colouring            *)
(* (coloracao.py), greedy dominating set (dom.py), Sahni-Gonzalez max-cut  *)
(* (max_cut.py) and nearest-neighbour TSP (vizinho_mais_proximo.py).       *)
(* Each program is one specification: SpecColor, SpecDom, SpecCut, SpecTSP.*)
(* A run reads its input, then executes the heuristic one loop iteration   *)
(* per step, then prints.                                                  *)
(***************************************************************************)
EXTENDS Integers, Sequences, FiniteSets, TLC

\* ------------------------------------------------------------------ bounds
\* Largest vertex id that appears in an edge-list file.
MaxN == 4
\* Largest number of `e` lines in a file that repeats lines.
MaxLines == 3
\* Largest vertex id of a TSP instance.
MaxId == 3
\* Largest x coordinate of a TSP point.
MaxCoord == 3

VARIABLES
    pc,                 \* position of the running program
    file,               \* the edge-list file: a sequence of lines
    G,                  \* the networkx graph built by carregar_grafo
    vertices_ordenados, cor, cor_atual, num_cores,          \* coloracao.py
    C, S, dominado, iters, resultado,                       \* dom.py
    fila, A, B, corte,                                      \* max_cut.py
    args, coords, dist, starts, start, visited, tour, current,   \* vizinho_mais_proximo.py
    total_cost, best_cost, best_tour, stdout, stderr, exit_status

graphVars == <<file, G>>
colorVars == <<vertices_ordenados, cor, cor_atual, num_cores>>
domVars == <<C, S, dominado, iters, resultado>>
cutVars == <<fila, A, B, corte>>
tspVars == <<args, coords, dist, starts, start, visited, tour, current,
             total_cost, best_cost, best_tour, stdout, stderr, exit_status>>
vars == <<pc, graphVars, colorVars, domVars, cutVars, tspVars>>

\* Python's None.
None == "None"

\* ----------------------------------------------------------------- helpers
Range(s) == {s[i] : i \in DOMAIN s}

\* Python's sorted() on a set of integers.
RECURSIVE sorted(_)
sorted(X) ==
    IF X = {} THEN <<>>
    ELSE LET m == CHOOSE x \in X : \A y \in X : x <= y
         IN <<m>> \o sorted(X \ {m})

\* ------------------------------------------------------------ nx.Graph
\* A networkx Graph: the nodes in insertion order and, per node, the set of
\* its neighbours (a node with a self-loop is its own neighbour).  A Graph
\* is simple: adding an edge that is already there changes nothing.
EmptyGraph == [nodes |-> <<>>, adj |-> [x \in {} |-> {}]]

nodes(g) == g.nodes

NodeSet(g) == DOMAIN g.adj

add_node(g, n) ==
    IF n \in DOMAIN g.adj THEN g
    ELSE [nodes |-> Append(g.nodes, n), adj |-> g.adj @@ (n :> {})]

\* G.add_nodes_from(range(1, n + 1))
RECURSIVE add_nodes_range(_, _, _)
add_nodes_range(g, i, n) ==
    IF i > n THEN g ELSE add_nodes_range(add_node(g, i), i + 1, n)

\* add_edge as a directed graph would do it: only u learns of v.
add_edge_dirigido(g, u, v) ==
    LET g1 == add_node(add_node(g, u), v)
    IN [g1 EXCEPT !.adj = [x \in DOMAIN g1.adj |->
            IF x = u THEN g1.adj[x] \cup {v} ELSE g1.adj[x]]]

add_edge(g, u, v) ==
    LET g1 == add_node(add_node(g, u), v)
    IN [g1 EXCEPT !.adj = [x \in DOMAIN g1.adj |->
            IF x = u /\ x = v THEN g1.adj[x] \cup {u}
            ELSE IF x = u THEN g1.adj[x] \cup {v}
            ELSE IF x = v THEN g1.adj[x] \cup {u}
            ELSE g1.adj[x]]]

neighbors(g, v) == g.adj[v]

\* G.degree(v): a self-loop counts twice.
degree(g, v) == Cardinality(g.adj[v]) + (IF v \in g.adj[v] THEN 1 ELSE 0)

\* G.edges(): each edge once, as the set of its endpoints.
edges(g) == UNION {{{u, v} : v \in g.adj[u]} : u \in DOMAIN g.adj}

\* ------------------------------------------------------------ the loader
\* A line of the file: t is its first letter; for "p", u is NUM_VERTICES and
\* v is NUM_ARESTAS; for "e", u and v are the endpoints.
Line(t, u, v) == [t |-> t, u |-> u, v |-> v]

carregar_linha(g, linha) ==
    IF linha.t = "c" THEN g
    ELSE IF linha.t = "p" THEN add_nodes_range(g, 1, linha.u)
    ELSE IF linha.t = "e" THEN add_edge(g, linha.u, linha.v)
    ELSE g

RECURSIVE carregar_de(_, _, _)
carregar_de(g, f, i) ==
    IF i > Len(f) THEN g ELSE carregar_de(carregar_linha(g, f[i]), f, i + 1)

carregar_grafo(f) == carregar_de(EmptyGraph, f, 1)

\* ------------------------------------------------------------ input files
\* Unordered pairs (u <= v, self-loops included) over 1..n, as <<u, v>>.
Pairs(n) == {p \in (1..n) \X (1..n) : p[1] <= p[2]}

PairLess(p, q) == p[1] < q[1] \/ (p[1] = q[1] /\ p[2] < q[2])

RECURSIVE PairSeq(_)
PairSeq(P) ==
    IF P = {} THEN <<>>
    ELSE LET m == CHOOSE p \in P : \A q \in P \ {p} : PairLess(p, q)
         IN <<m>> \o PairSeq(P \ {m})

\* The k-th line of a non-decreasing sequence of pairs: every second
\* occurrence of a pair is written reversed (`e v u` after `e u v`).
ELine(ps, k) ==
    IF Cardinality({j \in 1..(k - 1) : ps[j] = ps[k]}) % 2 = 1
    THEN Line("e", ps[k][2], ps[k][1])
    ELSE Line("e", ps[k][1], ps[k][2])

ELines(ps) == [k \in 1..Len(ps) |-> ELine(ps, k)]

PLine(n, m) == Line("p", n, m)

CLine == Line("c", 0, 0)

\* A well-formed file: a comment, the header, one line per edge of a graph
\* over 1..n.
FileSimple(n, P) == <<CLine, PLine(n, Cardinality(P))>> \o ELines(PairSeq(P))

\* A file the loader accepts without complaint although it is not well
\* formed: edge lines that may repeat an edge and may name vertices above
\* NUM_VERTICES, before or after the header.
NonDecreasing(ps) == \A i \in 1..(Len(ps) - 1) : ~PairLess(ps[i + 1], ps[i])

FileLoose(n, ps, headerLast) ==
    IF headerLast THEN ELines(ps) \o <<PLine(n, Len(ps))>>
    ELSE <<PLine(n, Len(ps))>> \o ELines(ps)

InitGraph ==
    /\ \/ \E n \in 0..MaxN : \E P \in SUBSET Pairs(n) : file = FileSimple(n, P)
       \/ \E n \in 0..MaxN, k \in 0..MaxLines, headerLast \in BOOLEAN :
             \E ps \in [1..k -> Pairs(MaxN)] :
                /\ NonDecreasing(ps)
                /\ file = FileLoose(n, ps, headerLast)
    /\ G = EmptyGraph

\* ------------------------------------------------------------ idle programs
IdleColor ==
    /\ vertices_ordenados = <<>>
    /\ cor = <<>>
    /\ cor_atual = 0
    /\ num_cores = None

IdleDom ==
    /\ C = {}
    /\ S = {}
    /\ dominado = <<>>
    /\ iters = 0
    /\ resultado = None

IdleCut ==
    /\ fila = <<>>
    /\ A = {}
    /\ B = {}
    /\ corte = None

IdleTSP ==
    /\ args = None
    /\ coords = <<>>
    /\ dist = None
    /\ starts = <<>>
    /\ start = None
    /\ visited = {}
    /\ tour = <<>>
    /\ current = None
    /\ total_cost = 0
    /\ best_cost = None
    /\ best_tour = None
    /\ stdout = <<>>
    /\ stderr = <<>>
    /\ exit_status = None

\* ============================================================ coloracao.py
\* sorted(G.nodes(), key=lambda v: G.degree(v), reverse=True): a stable sort,
\* so vertices of equal degree keep the order G.nodes() gives them.
RECURSIVE sorted_by_degree(_, _)
sorted_by_degree(g, s) ==
    IF s = <<>> THEN <<>>
    ELSE LET i == CHOOSE j \in 1..Len(s) :
                    /\ \A k \in 1..Len(s) : degree(g, s[k]) <= degree(g, s[j])
                    /\ \A k \in 1..(j - 1) : degree(g, s[k]) < degree(g, s[j])
         IN <<s[i]>> \o sorted_by_degree(g, SubSeq(s, 1, i - 1) \o SubSeq(s, i + 1, Len(s)))

\* conflito that takes any coloured neighbour for a conflict.
conflito_qualquer_cor(g, c, k, v) == \E u \in neighbors(g, v) : c[u] # 0

\* conflito = any(cor[u] == cor_atual for u in G.neighbors(v))
conflito(g, c, k, v) == \E u \in neighbors(g, v) : c[u] = k

\* pintar that checks every vertex against the colours as they were when the
\* pass began, not as they are now.
pintar_sem_estado_vivo(g, c, k, s, i) ==
    [v \in DOMAIN c |->
        IF v \in {s[j] : j \in i..Len(s)} /\ ~(\E u \in neighbors(g, v) : c[u] = k)
        THEN k ELSE c[v]]

\* for v in nao_coloridos[1:]: paint v unless it conflicts with the colours
\* as they are now.
RECURSIVE pintar(_, _, _, _, _)
pintar(g, c, k, s, i) ==
    IF i > Len(s) THEN c
    ELSE IF conflito(g, c, k, s[i]) THEN pintar(g, c, k, s, i + 1)
    ELSE pintar(g, [c EXCEPT ![s[i]] = k], k, s, i + 1)

nao_coloridos == SelectSeq(vertices_ordenados, LAMBDA v : cor[v] = 0)

\* carregar_grafo, then welsh_powell up to the loop.
ColorLoad ==
    /\ pc = "load"
    /\ LET g == carregar_grafo(file)
       IN /\ G' = g
          /\ vertices_ordenados' = sorted_by_degree(g, nodes(g))
          /\ cor' = [v \in NodeSet(g) |-> 0]
    /\ cor_atual' = 1
    /\ pc' = "loop"
    /\ UNCHANGED <<file, num_cores, domVars, cutVars, tspVars>>

\* One iteration of `while True` that does not break: one colour class.
ColorPass ==
    /\ pc = "loop"
    /\ nao_coloridos # <<>>
    /\ LET v0 == nao_coloridos[1]
       IN cor' = pintar(G, [cor EXCEPT ![v0] = cor_atual], cor_atual, nao_coloridos, 2)
    /\ cor_atual' = cor_atual + 1
    /\ UNCHANGED <<pc, graphVars, vertices_ordenados, num_cores, domVars, cutVars, tspVars>>

\* The iteration that breaks; the caller counts the colours.
ColorReturn ==
    /\ pc = "loop"
    /\ nao_coloridos = <<>>
    /\ num_cores' = Cardinality(Range(cor))
    /\ pc' = "done"
    /\ UNCHANGED <<graphVars, vertices_ordenados, cor, cor_atual, domVars, cutVars, tspVars>>

InitColor == pc = "load" /\ InitGraph /\ IdleColor /\ IdleDom /\ IdleCut /\ IdleTSP

NextColor == ColorLoad \/ ColorPass \/ ColorReturn

SpecColor == InitColor /\ [][NextColor]_vars

\* ================================================================== dom.py
\* viz_nao_dom = sum(1 for u in G.neighbors(v) if not dominado[u])
viz_nao_dom(g, d, v) == Cardinality({u \in neighbors(g, v) : ~d[u]})

\* for v in sorted(C): keep the first v whose count is strictly greater.
RECURSIVE melhor_de(_, _, _, _, _, _)
melhor_de(g, d, s, i, melhor_v, melhor_qtd) ==
    IF i > Len(s) THEN melhor_v
    ELSE IF viz_nao_dom(g, d, s[i]) > melhor_qtd
         THEN melhor_de(g, d, s, i + 1, s[i], viz_nao_dom(g, d, s[i]))
         ELSE melhor_de(g, d, s, i + 1, melhor_v, melhor_qtd)

melhor(g, d, c) == melhor_de(g, d, sorted(c), 1, None, -1)

\* precisa_inserir that forgets the vertex itself.
precisa_inserir_so_vizinhos(g, d, v) == \E u \in neighbors(g, v) : ~d[u]

precisa_inserir(g, d, v) == (~d[v]) \/ (\E u \in neighbors(g, v) : ~d[u])

\* dominado[v] = True; for u in G.neighbors(v): dominado[u] = True
marcar(g, d, v) == [u \in DOMAIN d |-> IF u = v \/ u \in neighbors(g, v) THEN TRUE ELSE d[u]]

\* C.remove(v) moved under `if precisa_inserir`.
remover_se_inseriu(c, v, inseriu) == IF inseriu THEN c \ {v} ELSE c

\* C.remove(v), whether or not v went into S.
remover(c, v, inseriu) == c \ {v}

\* carregar_grafo, then conjunto_dominante_aproximado up to the loop.
DomLoad ==
    /\ pc = "load"
    /\ LET g == carregar_grafo(file)
       IN /\ G' = g
          /\ C' = NodeSet(g)
          /\ dominado' = [v \in NodeSet(g) |-> FALSE]
    /\ S' = {}
    /\ iters' = 0
    /\ pc' = "loop"
    /\ UNCHANGED <<file, resultado, colorVars, cutVars, tspVars>>

\* One iteration of `while C`.
DomIter ==
    /\ pc = "loop"
    /\ C # {}
    /\ LET v == melhor(G, dominado, C)
           inserir == precisa_inserir(G, dominado, v)
       IN /\ S' = IF inserir THEN S \cup {v} ELSE S
          /\ dominado' = IF inserir THEN marcar(G, dominado, v) ELSE dominado
          /\ C' = remover(C, v, inserir)
    /\ iters' = iters + 1
    /\ UNCHANGED <<pc, graphVars, resultado, colorVars, cutVars, tspVars>>

\* return sorted(S)
DomReturn ==
    /\ pc = "loop"
    /\ C = {}
    /\ resultado' = sorted(S)
    /\ pc' = "done"
    /\ UNCHANGED <<graphVars, C, S, dominado, iters, colorVars, cutVars, tspVars>>

InitDom == pc = "load" /\ InitGraph /\ IdleColor /\ IdleDom /\ IdleCut /\ IdleTSP

NextDom == DomLoad \/ DomIter \/ DomReturn

SpecDom == InitDom /\ [][NextDom]_vars

\* ============================================================== max_cut.py
\* ganho_A = sum(1 for u in G.neighbors(v) if u in B)
ganho_A(g, b, v) == Cardinality({u \in neighbors(g, v) : u \in b})

\* ganho_B = sum(1 for u in G.neighbors(v) if u in A)
ganho_B(g, a, v) == Cardinality({u \in neighbors(g, v) : u \in a})

\* colocar without its final else: a vertex whose gains tie is not placed.
colocar_sem_empate(g, a, b, v) ==
    IF ganho_A(g, b, v) > ganho_B(g, a, v) THEN <<a \cup {v}, b>>
    ELSE IF ganho_B(g, a, v) > ganho_A(g, b, v) THEN <<a, b \cup {v}>>
    ELSE <<a, b>>

\* colocar with the two sides exchanged: v joins the majority of its neighbours.
colocar_invertido(g, a, b, v) ==
    IF ganho_A(g, b, v) > ganho_B(g, a, v) THEN <<a, b \cup {v}>>
    ELSE IF ganho_B(g, a, v) > ganho_A(g, b, v) THEN <<a \cup {v}, b>>
    ELSE IF Cardinality(a) <= Cardinality(b) THEN <<a \cup {v}, b>>
    ELSE <<a, b \cup {v}>>

\* The body of the for loop: <<A, B>> after v is placed.
colocar(g, a, b, v) ==
    IF ganho_A(g, b, v) > ganho_B(g, a, v) THEN <<a \cup {v}, b>>
    ELSE IF ganho_B(g, a, v) > ganho_A(g, b, v) THEN <<a, b \cup {v}>>
    ELSE IF Cardinality(a) <= Cardinality(b) THEN <<a \cup {v}, b>>
    ELSE <<a, b \cup {v}>>

\* sum(1 for u, v in G.edges() if (u in A and v in B) or (u in B and v in A))
tamanho_corte(g, a, b) ==
    Cardinality({e \in edges(g) :
        \E u \in e, v \in e : (u \in a /\ v \in b) \/ (u \in b /\ v \in a)})

\* carregar_grafo, then sahni_gonzalez_maxcut up to the loop; fila is what
\* `for v in sorted(G.nodes())` has still to visit.
CutLoad ==
    /\ pc = "load"
    /\ LET g == carregar_grafo(file)
       IN /\ G' = g
          /\ fila' = sorted(NodeSet(g))
    /\ A' = {}
    /\ B' = {}
    /\ pc' = "loop"
    /\ UNCHANGED <<file, corte, colorVars, domVars, tspVars>>

\* One iteration of the for loop.
CutPlace ==
    /\ pc = "loop"
    /\ fila # <<>>
    /\ LET ab == colocar(G, A, B, Head(fila))
       IN A' = ab[1] /\ B' = ab[2]
    /\ fila' = Tail(fila)
    /\ UNCHANGED <<pc, graphVars, corte, colorVars, domVars, tspVars>>

\* return A, B; the caller computes the cut size.
CutReturn ==
    /\ pc = "loop"
    /\ fila = <<>>
    /\ corte' = tamanho_corte(G, A, B)
    /\ pc' = "done"
    /\ UNCHANGED <<graphVars, fila, A, B, colorVars, domVars, tspVars>>

InitCut == pc = "load" /\ InitGraph /\ IdleColor /\ IdleDom /\ IdleCut /\ IdleTSP

NextCut == CutLoad \/ CutPlace \/ CutReturn

SpecCut == InitCut /\ [][NextCut]_vars

\* =================================================== vizinho_mais_proximo.py
\* Coordinates and distances are counted in halves: the point <<3, 0>> is
\* (1.5, 0.0) and the distance 3 is 1.5.  The points lie on one line, so
\* that math.hypot is exact and float arithmetic is integer arithmetic here.
Points == {<<x, 0>> : x \in 0..MaxCoord}

\* float("inf"): above every cost a run can reach.
Inf == 1000000

Isqrt(n) == CHOOSE r \in 0..n : r * r <= n /\ (r + 1) * (r + 1) > n

\* math.hypot(a[0] - b[0], a[1] - b[1])
euclid_dist(a, b) ==
    Isqrt((a[1] - b[1]) * (a[1] - b[1]) + (a[2] - b[2]) * (a[2] - b[2]))

\* float(int(d + 0.5)), d >= 0 in halves: (d + 1) \div 2 whole units.
arredondar(d) == 2 * ((d + 1) \div 2)

\* A dict dist[u][v]: its keys in insertion order, and its entries.
construir_matriz_distancias(c, use_round) ==
    [keys |-> sorted(DOMAIN c),
     d |-> [i \in DOMAIN c |-> [j \in DOMAIN c |->
                IF i = j THEN 0
                ELSE IF use_round THEN arredondar(euclid_dist(c[i], c[j]))
                ELSE euclid_dist(c[i], c[j])]]]

\* if d <= best_d
menor_ou_igual(d, best_d) == d <= best_d

\* if d < best_d
menor(d, best_d) == d < best_d

\* for v in nodes: the scan for the nearest unvisited vertex; <<best, best_d>>.
RECURSIVE procurar(_, _, _, _, _, _)
procurar(dm, vis, cur, i, best, best_d) ==
    IF i > Len(dm.keys) THEN <<best, best_d>>
    ELSE LET v == dm.keys[i]
         IN IF v \in vis THEN procurar(dm, vis, cur, i + 1, best, best_d)
            ELSE IF menor(dm.d[cur][v], best_d)
                 THEN procurar(dm, vis, cur, i + 1, v, dm.d[cur][v])
                 ELSE procurar(dm, vis, cur, i + 1, best, best_d)

\* The closing edge left out of the cost.
fechar_sem_custo(dm, total, cur, s) == total

\* total_cost += dist[current][start]
fechar(dm, total, cur, s) == total + dm.d[cur][s]

\* A check of the lower end of the range only.
start_ausente_so_minimo(s, c) == s < 1

\* s not in coords
start_ausente(s, c) == s \notin DOMAIN c

\* An optional int (args.start, the exit status) is a sequence of at most
\* one element; <<>> is None.
InitTSP ==
    /\ pc = "start"
    /\ file = <<>>
    /\ G = EmptyGraph
    /\ IdleColor /\ IdleDom /\ IdleCut
    /\ args \in [start : {<<>>} \cup {<<k>> : k \in 1..(MaxId + 1)},
                 try_all : BOOLEAN, round : BOOLEAN]
    /\ \E K \in SUBSET (1..MaxId) : coords \in [K -> Points]
    /\ dist = [keys |-> <<>>, d |-> <<>>]
    /\ starts = <<>>
    /\ start = None
    /\ visited = {}
    /\ tour = <<>>
    /\ current = None
    /\ total_cost = 0
    /\ best_cost = Inf
    /\ best_tour = <<>>
    /\ stdout = <<>>
    /\ stderr = <<>>
    /\ exit_status = <<>>

\* if not coords: print(...); sys.exit(1)
ExecNoCoords ==
    /\ pc = "start"
    /\ DOMAIN coords = {}
    /\ stderr' = Append(stderr, "Erro: nao consegui ler coordenadas do arquivo.")
    /\ exit_status' = <<1>>
    /\ pc' = "exited"
    /\ UNCHANGED <<graphVars, colorVars, domVars, cutVars, args, coords, dist, starts,
                   start, visited, tour, current, total_cost, best_cost, best_tour, stdout>>

\* dist = construir_matriz_distancias(coords, use_round=args.round)
ExecBuild ==
    /\ pc = "start"
    /\ DOMAIN coords # {}
    /\ dist' = construir_matriz_distancias(coords, args.round)
    /\ pc' = "select"
    /\ UNCHANGED <<graphVars, colorVars, domVars, cutVars, args, coords, starts, start,
                   visited, tour, current, total_cost, best_cost, best_tour, stdout,
                   stderr, exit_status>>

\* if args.try_all: starts = sorted(coords.keys())
ExecSelectAll ==
    /\ pc = "select"
    /\ args.try_all
    /\ starts' = sorted(DOMAIN coords)
    /\ pc' = "for"
    /\ UNCHANGED <<graphVars, colorVars, domVars, cutVars, args, coords, dist, start,
                   visited, tour, current, total_cost, best_cost, best_tour, stdout,
                   stderr, exit_status>>

\* s = args.start if args.start is not None else min(coords.keys())
inicio(a, c) ==
    IF a.start # <<>> THEN a.start[1]
    ELSE CHOOSE m \in DOMAIN c : \A k \in DOMAIN c : m <= k

\* else: ... starts = [s]
ExecSelectOne ==
    /\ pc = "select"
    /\ ~args.try_all
    /\ ~start_ausente(inicio(args, coords), coords)
    /\ starts' = <<inicio(args, coords)>>
    /\ pc' = "for"
    /\ UNCHANGED <<graphVars, colorVars, domVars, cutVars, args, coords, dist, start,
                   visited, tour, current, total_cost, best_cost, best_tour, stdout,
                   stderr, exit_status>>

\* if s not in coords: print(...); sys.exit(1)
ExecUnknownStart ==
    /\ pc = "select"
    /\ ~args.try_all
    /\ start_ausente(inicio(args, coords), coords)
    /\ stderr' = Append(stderr, "Erro: vertice inicial nao esta presente na instancia.")
    /\ exit_status' = <<1>>
    /\ pc' = "exited"
    /\ UNCHANGED <<graphVars, colorVars, domVars, cutVars, args, coords, dist, starts,
                   start, visited, tour, current, total_cost, best_cost, best_tour, stdout>>

\* for s in starts: nearest_neighbor_tour(dist, s) up to its loop.
TourBegin ==
    /\ pc = "for"
    /\ starts # <<>>
    /\ start' = Head(starts)
    /\ visited' = {Head(starts)}
    /\ tour' = <<Head(starts)>>
    /\ current' = Head(starts)
    /\ total_cost' = 0
    /\ pc' = "while"
    /\ UNCHANGED <<graphVars, colorVars, domVars, cutVars, args, coords, dist, starts,
                   best_cost, best_tour, stdout, stderr, exit_status>>

\* One iteration of `while len(visited) < n`.
TourStep ==
    /\ pc = "while"
    /\ Cardinality(visited) < Len(dist.keys)
    /\ LET r == procurar(dist, visited, current, 1, None, Inf)
       IN /\ tour' = Append(tour, r[1])
          /\ visited' = visited \cup {r[1]}
          /\ total_cost' = total_cost + r[2]
          /\ current' = r[1]
    /\ UNCHANGED <<pc, graphVars, colorVars, domVars, cutVars, args, coords, dist, starts,
                   start, best_cost, best_tour, stdout, stderr, exit_status>>

\* The cycle is closed and returned; executar keeps it if it is cheaper.
TourClose ==
    /\ pc = "while"
    /\ ~(Cardinality(visited) < Len(dist.keys))
    /\ LET cost == fechar(dist, total_cost, current, start)
           t == Append(tour, start)
       IN /\ total_cost' = cost
          /\ tour' = t
          /\ best_cost' = IF cost < best_cost THEN cost ELSE best_cost
          /\ best_tour' = IF cost < best_cost THEN t ELSE best_tour
    /\ starts' = Tail(starts)
    /\ pc' = "for"
    /\ UNCHANGED <<graphVars, colorVars, domVars, cutVars, args, coords, dist, start,
                   visited, current, stdout, stderr, exit_status>>

\* if best_tour and best_tour[0] == best_tour[-1]: simple_tour = best_tour[:-1]
simple_tour(t) ==
    IF t # <<>> /\ t[1] = t[Len(t)] THEN SubSeq(t, 1, Len(t) - 1) ELSE t

\* The two prints; the process ends normally.
ExecPrint ==
    /\ pc = "for"
    /\ starts = <<>>
    /\ stdout' = stdout \o <<[custo |-> best_cost], [ordem |-> simple_tour(best_tour)]>>
    /\ exit_status' = <<0>>
    /\ pc' = "done"
    /\ UNCHANGED <<graphVars, colorVars, domVars, cutVars, args, coords, dist, starts,
                   start, visited, tour, current, total_cost, best_cost, best_tour, stderr>>

NextTSP ==
    \/ ExecNoCoords \/ ExecBuild \/ ExecSelectAll \/ ExecSelectOne \/ ExecUnknownStart
    \/ TourBegin \/ TourStep \/ TourClose \/ ExecPrint

SpecTSP == InitTSP /\ [][NextTSP]_vars

\* ================================================================== claims
SelfLoops(g) == {v \in NodeSet(g) : v \in neighbors(g, v)}

\* C1 as stated: in the returned colouring the two ends of every edge of the
\* graph, self-loops included, have different colours.
C1_ProperOnEveryEdge ==
    pc = "done" => \A u \in NodeSet(G) : \A v \in neighbors(G, u) : cor[u] # cor[v]

\* C1 amended: in the returned colouring every vertex has a positive colour
\* and the two ends of every edge that is not a self-loop have different
\* colours.
C1_ProperOffLoops ==
    pc = "done" =>
        /\ \A v \in NodeSet(G) : cor[v] >= 1
        /\ \A u \in NodeSet(G) : \A v \in neighbors(G, u) \ {u} : cor[u] # cor[v]

C1_Witness ==
    /\ pc = "done"
    /\ SelfLoops(G) # {}
    /\ \E u \in NodeSet(G) : neighbors(G, u) \ {u} # {}
    /\ \E u \in NodeSet(G) : \E v \in NodeSet(G) \ {u} : cor[u] = cor[v]

maxDegree(g) ==
    IF NodeSet(g) = {} THEN 0
    ELSE CHOOSE m \in {degree(g, v) : v \in NodeSet(g)} :
            \A v \in NodeSet(g) : degree(g, v) <= m

\* C5: the number of distinct colours the caller counts in the returned
\* colouring is at most the maximum degree of the graph plus one.
C5_ColorBound == pc = "done" => num_cores <= maxDegree(G) + 1

C5_Witness ==
    /\ pc = "done"
    /\ num_cores = maxDegree(G) + 1
    /\ num_cores >= 3

\* C2: every vertex of the graph is in the returned list or has a neighbour
\* in it.
C2_Coverage ==
    pc = "done" =>
        \A v \in NodeSet(G) :
            v \in Range(resultado) \/ (\E u \in Range(resultado) : u \in neighbors(G, v))

C2_Witness ==
    /\ pc = "done"
    /\ \E v \in NodeSet(G) : neighbors(G, v) = {}
    /\ \E v \in NodeSet(G) : v \notin Range(resultado)

\* C7: every iteration of the main loop takes exactly one candidate out of C,
\* so after k iterations |V| - k candidates are left; while C is not empty the
\* scan selects one of its members, and on return the loop has run exactly
\* |V| times and C is empty.
C7_Termination ==
    pc \in {"loop", "done"} =>
        /\ iters + Cardinality(C) = Cardinality(NodeSet(G))
        /\ C \subseteq NodeSet(G)
        /\ pc = "loop" /\ C # {} => melhor(G, dominado, C) \in C
        /\ pc = "done" => C = {} /\ iters = Cardinality(NodeSet(G))

C7_Witness ==
    /\ pc = "done"
    /\ iters >= 3
    /\ Cardinality(S) < iters

\* C3: A and B are disjoint at every step and hold exactly the vertices the
\* loop has visited; a step places one vertex that was on neither side and
\* moves none; on return A and B are disjoint and cover V.
C3_Placed ==
    /\ A \cap B = {}
    /\ pc = "loop" => /\ (A \cup B) \cap Range(fila) = {}
                      /\ A \cup B \cup Range(fila) = NodeSet(G)
    /\ pc = "done" => A \cup B = NodeSet(G)

C3_Step ==
    /\ A \subseteq A'
    /\ B \subseteq B'
    /\ pc = "loop" /\ fila # <<>> =>
            /\ Head(fila) \notin A \cup B
            /\ A' \cup B' = A \cup B \cup {Head(fila)}

C3_Partition == [](C3_Placed) /\ [][C3_Step]_vars

C3_Witness ==
    /\ pc = "done"
    /\ Cardinality(A) >= 2
    /\ Cardinality(B) >= 2

\* C10: for a graph without self-loops, twice the cut size computed on return
\* is at least the number of edges of the graph.
C10_HalfOfEdges ==
    pc = "done" /\ SelfLoops(G) = {} => 2 * corte >= Cardinality(edges(G))

C10_Witness ==
    /\ pc = "done"
    /\ SelfLoops(G) = {}
    /\ Cardinality(edges(G)) >= 4
    /\ corte < Cardinality(edges(G))

\* The `e` lines of a file.
ELinesOf(f) == {i \in DOMAIN f : f[i].t = "e"}

LinesBetween(f, u, v) == Cardinality({i \in ELinesOf(f) : {f[i].u, f[i].v} = {u, v}})

Crosses(u, v) == (u \in A /\ v \in B) \/ (u \in B /\ v \in A)

\* C8 as stated: every `e` line is an edge of its own: a vertex's degree is
\* the number of line ends that name it, its gains count one per line, and
\* the cut size is the number of lines whose ends are on opposite sides.
C8_EdgeMultiset ==
    pc # "load" =>
        /\ \A v \in NodeSet(G) :
              degree(G, v) = Cardinality({i \in ELinesOf(file) : file[i].u = v})
                           + Cardinality({i \in ELinesOf(file) : file[i].v = v})
        /\ pc = "loop" /\ fila # <<>> =>
              ganho_A(G, B, Head(fila)) =
                Cardinality({i \in ELinesOf(file) :
                    \E u \in B : {file[i].u, file[i].v} = {u, Head(fila)}})
        /\ pc = "done" =>
              corte = Cardinality({i \in ELinesOf(file) : Crosses(file[i].u, file[i].v)})

\* C8 amended: the graph is simple: u and v are joined by one edge when some
\* line names them, however many do; a degree counts each neighbour once (a
\* self-loop twice), a gain counts each neighbour once, and the cut size
\* counts each pair of joined vertices on opposite sides once.
C8_EdgeSet ==
    pc # "load" =>
        /\ \A u \in NodeSet(G), v \in NodeSet(G) :
              (v \in neighbors(G, u)) <=> (LinesBetween(file, u, v) > 0)
        /\ \A v \in NodeSet(G) :
              degree(G, v) =
                Cardinality({u \in NodeSet(G) \ {v} : LinesBetween(file, u, v) > 0})
                + (IF LinesBetween(file, v, v) > 0 THEN 2 ELSE 0)
        /\ pc = "loop" /\ fila # <<>> =>
              /\ ganho_A(G, B, Head(fila)) =
                    Cardinality({u \in B : LinesBetween(file, u, Head(fila)) > 0})
              /\ ganho_B(G, A, Head(fila)) =
                    Cardinality({u \in A : LinesBetween(file, u, Head(fila)) > 0})
        /\ pc = "done" =>
              corte = Cardinality({p \in A \X B : LinesBetween(file, p[1], p[2]) > 0})

C8_Witness ==
    /\ pc = "done"
    /\ \E u \in A, v \in B :
          /\ LinesBetween(file, u, v) >= 2
          /\ \E i \in ELinesOf(file), j \in ELinesOf(file) :
                file[i].u = u /\ file[i].v = v /\ file[j].u = v /\ file[j].v = u
    /\ corte >= 2

RECURSIVE PathCost(_, _, _)
PathCost(dm, t, i) ==
    IF i >= Len(t) THEN 0 ELSE dm.d[t[i]][t[i + 1]] + PathCost(dm, t, i + 1)

\* C4: the returned tour has n + 1 elements, begins and ends at the start, its
\* first n elements are all the vertices, each once, and the returned cost is
\* the sum of the distances between consecutive elements, the closing edge
\* included.
C4_TourValid ==
    pc \in {"for", "done"} /\ tour # <<>> =>
        LET n == Cardinality(DOMAIN coords)
        IN /\ Len(tour) = n + 1
           /\ tour[1] = start /\ tour[n + 1] = start
           /\ {tour[i] : i \in 1..n} = DOMAIN coords
           /\ \A i \in 1..n, j \in 1..n : i # j => tour[i] # tour[j]
           /\ total_cost = PathCost(dist, tour, 1)

C4_Witness ==
    /\ pc = "for"
    /\ Len(tour) >= 4
    /\ start # tour[2]
    /\ dist.d[tour[Len(tour) - 1]][start] > 0

\* The k-th element of the tour was, when it was appended, an unvisited vertex
\* nearest to the one before it, and of the least id among those.
StepRule(k) ==
    LET cur == tour[k - 1]
        v == tour[k]
        seen == {tour[j] : j \in 1..(k - 1)}
    IN /\ v \in DOMAIN coords \ seen
       /\ \A u \in DOMAIN coords \ seen :
            /\ dist.d[cur][v] <= dist.d[cur][u]
            /\ dist.d[cur][u] = dist.d[cur][v] => v <= u

\* C9: every vertex the loop appends to the tour is an unvisited vertex at
\* the least distance from the current one, and the one of least id among
\* the unvisited vertices at that distance.
C9_StepRule ==
    pc = "while" => \A k \in 2..Len(tour) : StepRule(k)

C9_Witness ==
    /\ pc = "while"
    /\ \E k \in 2..Len(tour) :
          \E u \in DOMAIN coords \ {tour[j] : j \in 1..k} :
             /\ dist.d[tour[k - 1]][u] = dist.d[tour[k - 1]][tour[k]]
             /\ coords[u] # coords[tour[k]]

UnknownStart == args.start # <<>> /\ args.start[1] \notin DOMAIN coords

\* C6 as stated: a run whose --start is not a key of the coordinate map ends
\* with status 1 and a diagnostic, before the distance matrix is built and
\* before any tour is constructed, and prints no cost or tour.
C6_FatalBeforeAnyComputation ==
    UnknownStart =>
        /\ pc \in {"start", "exited"}
        /\ dist.keys = <<>>
        /\ tour = <<>>
        /\ stdout = <<>>
        /\ pc = "exited" => exit_status = <<1>> /\ stderr # <<>>

\* C6 amended: a run without --try-all whose --start is not a key of the
\* coordinate map ends with status 1 and a diagnostic before any tour is
\* constructed, after the distance matrix is built when the map is not empty,
\* and prints no cost or tour.
C6_FatalBeforeAnyTour ==
    UnknownStart /\ ~args.try_all =>
        /\ pc \in {"start", "select", "exited"}
        /\ pc # "exited" => ENABLED NextTSP
        /\ starts = <<>> /\ tour = <<>> /\ best_tour = <<>>
        /\ stdout = <<>>
        /\ pc = "exited" =>
              /\ exit_status = <<1>>
              /\ Len(stderr) = 1
              /\ DOMAIN coords # {} => dist = construir_matriz_distancias(coords, args.round)

C6_Witness ==
    /\ UnknownStart /\ ~args.try_all
    /\ pc = "exited"
    /\ Cardinality(DOMAIN coords) >= 2
====
